---- MODULE Spec2Model ----
(***************************************************************************)
(* A model of package httplog: the capability-preserving ResponseWriter    *)
(* wrapper (response_writer.go), the attribute-pair parser and client      *)
(* address resolution (Request), and the log-format interpreter            *)
(* (Record.Format).                                                        *)
(*                                                                         *)
(* Go strings are modelled as sequences of one-character strings, so that  *)
(* indexing, slicing and concatenation are what the code does to bytes.    *)
(***************************************************************************)
EXTENDS Integers, Sequences, FiniteSets, TLC

VARIABLES
    under,        \* the wrapped http.ResponseWriter (the environment's object)
    rw,           \* the wrapper returned by WrapResponseWriter
    last,         \* the last call made on the wrapper and how it ended
    headerCalls,  \* the status codes passed to the wrapper's WriteHeader, in order
    text,         \* ParsePairs: the header value being parsed
    ci,           \* ParsePairs: the case-insensitivity flag
    pairsOut,     \* ParsePairs: the returned (map, error), or Pending
    req,          \* ClientAddr: the Request it is called on
    addrOut,      \* ClientAddr: the returned string, an abort, or Pending
    format,       \* Record.Format: the format string
    rec,          \* Record.Format: the Record it is called on
    formatOut,    \* Record.Format: the returned string, an abort, or Pending
    heap,         \* the header maps and URLs that requests and writers point to
    liveReq,      \* the live *http.Request of the exchange
    record,       \* one Record, its methods called in any order
    seen,         \* what the request's Header and URL held when Update captured them
    done,         \* the methods called since the Reset of what they assign; whether a used Record was reset
    now,          \* the clock time.Now reads, in seconds
    logFn,        \* LoggingHandler.LogFn
    pool,         \* recordPool: the Records waiting to be reused
    records,      \* every Record allocated by recordPool.New, by address
    exch          \* the concurrent ServeHTTP calls: position, Record, wrapper, log calls

wrapVars == <<under, rw, last, headerCalls>>
pairVars == <<text, ci, pairsOut>>
addrVars == <<req, addrOut>>
fmtVars == <<format, rec, formatOut>>
recVars == <<heap, liveReq, record, seen, done>>
serveVars == <<logFn, pool, records, exch>>
vars == <<under, rw, last, headerCalls, text, ci, pairsOut, req, addrOut,
          format, rec, formatOut, heap, liveReq, record, seen, done, now,
          logFn, pool, records, exch>>

\* The value of a result variable before the call has been made.
Pending == [kind |-> "pending"]

(***************************************************************************)
(* Bounds of the model.                                                    *)
(***************************************************************************)
\* Write stops being enabled once the wrapper has counted this many bytes.
MaxSize == 4
\* The longest byte slice handed to one Write.
MaxWrite == 2
\* WriteHeader stops being enabled after this many calls.
MaxHeaderCalls == 3

(***************************************************************************)
(* response_writer.go                                                      *)
(***************************************************************************)
Caps == {"CloseNotifier", "Flusher", "Hijacker", "Pusher"}

closeNotifier == 1
flusher == 2
hijacker == 4
pusher == 8

\* i |= bit, for the bits of the capabilities in S (each bit occurs once).
CapBits(S) ==
    (IF "CloseNotifier" \in S THEN closeNotifier ELSE 0)
    + (IF "Flusher" \in S THEN flusher ELSE 0)
    + (IF "Hijacker" \in S THEN hijacker ELSE 0)
    + (IF "Pusher" \in S THEN pusher ELSE 0)

\* The optional methods declared on the concrete type that types[i] returns,
\* as a sequence indexed by i + 1.  Entry 7 (responseWriterCloseNotifier-
\* FlusherHijacker) carries the Push method declared at line 311, and entry 11
\* (responseWriterCloseNotifierFlusherPusher) declares no Push.
types ==
    << {},
       {"CloseNotifier"},
       {"Flusher"},
       {"CloseNotifier", "Flusher"},
       {"Hijacker"},
       {"CloseNotifier", "Hijacker"},
       {"Flusher", "Hijacker"},
       {"CloseNotifier", "Flusher", "Hijacker", "Pusher"},
       {"Pusher"},
       {"CloseNotifier", "Pusher"},
       {"Flusher", "Pusher"},
       {"CloseNotifier", "Flusher"},
       {"Hijacker", "Pusher"},
       {"CloseNotifier", "Hijacker", "Pusher"},
       {"Flusher", "Hijacker", "Pusher"},
       {"CloseNotifier", "Flusher", "Hijacker", "Pusher"} >>

\* WrapResponseWriter(rw): probe the four interfaces, pick types[i], and
\* build it around a fresh responseWriter{responseWriter: rw}.
WrapResponseWriter(w) ==
    [ shape    |-> CapBits(w.caps),
      methods  |-> types[CapBits(w.caps) + 1],
      status   |-> 0,
      size     |-> 0,
      hijacked |-> FALSE ]

\* val, ok := wrapper.(http.<c>): the type assertion succeeds iff the
\* wrapper's concrete type declares the method.
Offers(w, c) == c \in w.methods

\* responseWriter.Status
Status(w) == IF w.status = 0 THEN 200 ELSE w.status

\* responseWriter.Size
Size(w) == w.size

\* responseWriter.Hijacked
Hijacked(w) == w.hijacked

\* The status codes a handler passes to WriteHeader.
StatusCodes == {200, 404, 500}

\* A fresh wrapped writer: it supports the capabilities S and has seen no call.
NewUnder(S) ==
    [ caps |-> S, written |-> 0, status |-> 0, hijackCalls |-> 0, lastCall |-> "none" ]

\* A goroutine that panicked makes no further call on the wrapper.
Running == last.res # "panic"

\* r.responseWriter.responseWriter.(http.<c>): the assertion on the wrapped
\* writer panics when the wrapped writer does not implement the interface.
Asserts(c) == c \in under.caps

Write_CountsRequested(len, n, err) ==
    /\ Running
    /\ n <= len
    /\ rw.size + n <= MaxSize
    /\ under' = [under EXCEPT !.written = @ + n, !.lastCall = "Write"]
    /\ rw' = [rw EXCEPT !.size = @ + len]
    /\ last' = [op |-> "Write", res |-> IF err THEN "err" ELSE "ok",
                asked |-> len, n |-> n]
    /\ UNCHANGED <<headerCalls, pairVars, addrVars, fmtVars, recVars, now, serveVars>>

\* responseWriter.Write(p) with len(p) = len: forward, then add the count the
\* wrapped writer returned.  n and err are the wrapped writer's answer; the
\* wrapped writer keeps the sum of the counts it returned.
Write(len, n, err) ==
    /\ Running
    /\ n <= len
    /\ rw.size + n <= MaxSize
    /\ under' = [under EXCEPT !.written = @ + n, !.lastCall = "Write"]
    /\ rw' = [rw EXCEPT !.size = @ + n]
    /\ last' = [op |-> "Write", res |-> IF err THEN "err" ELSE "ok",
                asked |-> len, n |-> n]
    /\ UNCHANGED <<headerCalls, pairVars, addrVars, fmtVars, recVars, now, serveVars>>

\* responseWriter.WriteHeader: record the code, then forward.  The wrapped
\* writer (net/http) keeps the first code it is given.
WriteHeader(statusCode) ==
    /\ Running
    /\ Len(headerCalls) < MaxHeaderCalls
    /\ rw' = [rw EXCEPT !.status = statusCode]
    /\ under' = [under EXCEPT !.status = IF @ = 0 THEN statusCode ELSE @,
                              !.lastCall = "WriteHeader"]
    /\ headerCalls' = Append(headerCalls, statusCode)
    /\ last' = [op |-> "WriteHeader", res |-> "ok"]
    /\ UNCHANGED <<pairVars, addrVars, fmtVars, recVars, now, serveVars>>

\* responseWriter.Header: forward.
Header ==
    /\ Running
    /\ under' = [under EXCEPT !.lastCall = "Header"]
    /\ last' = [op |-> "Header", res |-> "ok"]
    /\ UNCHANGED <<rw, headerCalls, pairVars, addrVars, fmtVars, recVars, now, serveVars>>

\* <type>.CloseNotify, on the wrapper types that declare it: assert
\* http.CloseNotifier on the wrapped writer and call it.
CloseNotify ==
    /\ Running
    /\ Offers(rw, "CloseNotifier")
    /\ IF Asserts("CloseNotifier")
       THEN /\ under' = [under EXCEPT !.lastCall = "CloseNotify"]
            /\ last' = [op |-> "CloseNotify", res |-> "ok"]
       ELSE /\ under' = under
            /\ last' = [op |-> "CloseNotify", res |-> "panic"]
    /\ UNCHANGED <<rw, headerCalls, pairVars, addrVars, fmtVars, recVars, now, serveVars>>

\* <type>.Flush, on the wrapper types that declare it.
Flush ==
    /\ Running
    /\ Offers(rw, "Flusher")
    /\ IF Asserts("Flusher")
       THEN /\ under' = [under EXCEPT !.lastCall = "Flush"]
            /\ last' = [op |-> "Flush", res |-> "ok"]
       ELSE /\ under' = under
            /\ last' = [op |-> "Flush", res |-> "panic"]
    /\ UNCHANGED <<rw, headerCalls, pairVars, addrVars, fmtVars, recVars, now, serveVars>>

\* <type>.Push, on the wrapper types that declare it; err is the wrapped
\* writer's answer.
Push(err) ==
    /\ Running
    /\ Offers(rw, "Pusher")
    /\ IF Asserts("Pusher")
       THEN /\ under' = [under EXCEPT !.lastCall = "Push"]
            /\ last' = [op |-> "Push", res |-> IF err THEN "err" ELSE "ok"]
       ELSE /\ under' = under
            /\ last' = [op |-> "Push", res |-> "panic"]
    /\ UNCHANGED <<rw, headerCalls, pairVars, addrVars, fmtVars, recVars, now, serveVars>>

Hijack_OnlyOnSuccess(err) ==
    /\ Running
    /\ Offers(rw, "Hijacker")
    /\ IF Asserts("Hijacker")
       THEN /\ rw' = [rw EXCEPT !.hijacked = @ \/ ~err]
            /\ under' = [under EXCEPT !.hijackCalls = 1, !.lastCall = "Hijack"]
            /\ last' = [op |-> "Hijack", res |-> IF err THEN "err" ELSE "ok"]
       ELSE /\ rw' = [rw EXCEPT !.hijacked = TRUE]
            /\ under' = under
            /\ last' = [op |-> "Hijack", res |-> "panic"]
    /\ UNCHANGED <<headerCalls, pairVars, addrVars, fmtVars, recVars, now, serveVars>>

\* <type>.Hijack: set the flag first, then assert the interface on the wrapped
\* writer and call it; err is the wrapped writer's answer.  hijackCalls is
\* capped at 1: the wrapped writer only needs to know whether it was called.
Hijack(err) ==
    /\ Running
    /\ Offers(rw, "Hijacker")
    /\ rw' = [rw EXCEPT !.hijacked = TRUE]
    /\ IF Asserts("Hijacker")
       THEN /\ under' = [under EXCEPT !.hijackCalls = 1, !.lastCall = "Hijack"]
            /\ last' = [op |-> "Hijack", res |-> IF err THEN "err" ELSE "ok"]
       ELSE /\ under' = under
            /\ last' = [op |-> "Hijack", res |-> "panic"]
    /\ UNCHANGED <<headerCalls, pairVars, addrVars, fmtVars, recVars, now, serveVars>>

(***************************************************************************)
(* Go strings: 0-based indexing and half-open slices over sequences of     *)
(* one-character strings.                                                  *)
(***************************************************************************)
\* s[i], for 0 <= i < len(s)
At(s, i) == s[i + 1]

\* s[lo:hi], for 0 <= lo <= hi <= len(s)
Slice(s, lo, hi) == SubSeq(s, lo + 1, hi)

\* Whether s[lo:hi] is within range; Go panics otherwise.
SliceOK(s, lo, hi) == 0 <= lo /\ lo <= hi /\ hi <= Len(s)

Lowers ==
    << "a", "b", "c", "d", "e", "f", "g", "h", "i", "j", "k", "l", "m",
       "n", "o", "p", "q", "r", "s", "t", "u", "v", "w", "x", "y", "z" >>

Uppers ==
    << "A", "B", "C", "D", "E", "F", "G", "H", "I", "J", "K", "L", "M",
       "N", "O", "P", "Q", "R", "S", "T", "U", "V", "W", "X", "Y", "Z" >>

IsLower(c) == \E k \in 1..26 : Lowers[k] = c
IsUpper(c) == \E k \in 1..26 : Uppers[k] = c

\* One byte of strings.ToLower / ToUpper on ASCII text.
LowerByte(c) == IF IsUpper(c) THEN Lowers[CHOOSE k \in 1..26 : Uppers[k] = c] ELSE c
UpperByte(c) == IF IsLower(c) THEN Uppers[CHOOSE k \in 1..26 : Lowers[k] = c] ELSE c

\* strings.ToLower
ToLower(s) == [k \in 1..Len(s) |-> LowerByte(s[k])]

\* The smallest of a non-empty set of integers.
Min(S) == CHOOSE x \in S : \A y \in S : x <= y

\* for j = from; j < len(s) && s[j] is not in stops; j++ {}: the value of j
\* after the loop.
ScanTo(s, from, stops) ==
    IF from >= Len(s) THEN from
    ELSE Min({j \in from..Len(s) : j = Len(s) \/ At(s, j) \in stops})

\* The 1-based position of the first c in s, or 0.
IndexOf(s, c) ==
    IF \E k \in 1..Len(s) : s[k] = c
    THEN Min({k \in 1..Len(s) : s[k] = c})
    ELSE 0

(***************************************************************************)
(* Go maps with string keys: functions over a finite set of keys.  A read  *)
(* of a missing key (or of a nil map) gives the zero value.                *)
(***************************************************************************)
EmptyMap == [k \in {} |-> <<>>]

MapGet(m, key) == IF key \in DOMAIN m THEN m[key] ELSE <<>>

MapPut_FirstWins(m, key, val) ==
    [k \in DOMAIN m \cup {key} |-> IF k \in DOMAIN m THEN m[k] ELSE val]

\* pairs[key] = val
MapPut(m, key, val) ==
    [k \in DOMAIN m \cup {key} |-> IF k = key THEN val ELSE m[k]]

(***************************************************************************)
(* ParsePairs                                                              *)
(***************************************************************************)
ParseErr(msg, pos) == [kind |-> "err", err |-> msg, at |-> pos]

\* One iteration of the loop "for s < e" starting at s with the map built
\* so far (isNil: the map has not been allocated), and the iterations after
\* it.  The result is (pairs, nil), (nil, error), or a run-time panic
\* (slice bounds out of range).
RECURSIVE ParseFrom(_, _, _, _, _)
ParseFrom(t, fold, s, pairs, isNil) ==
    LET e == Len(t)
        ns == s
        ne == ScanTo(t, s, {"=", ";"})
    IN
    IF ~(s < e) THEN [kind |-> "ok", nil |-> isNil, pairs |-> pairs]
    ELSE IF ne = ns THEN ParseErr("empty attribute name", ns)
    ELSE IF ne = e THEN ParseErr("no '=' before end of string", -1)
    ELSE IF At(t, ne) = ";" THEN ParseErr("found unexpected ';'", ne)
    ELSE
        LET vs0 == ne + 1
            quoted == vs0 < e /\ At(t, vs0) = "\""
            vs == IF quoted THEN vs0 + 1 ELSE vs0
            ve == IF quoted THEN ScanTo(t, vs0 + 2, {"\""})
                            ELSE ScanTo(t, vs0, {";"})
            sq == ve + 1
            trailing == quoted /\ sq < Len(t) /\ At(t, sq) # ";"
            s2 == IF quoted THEN sq + 1 ELSE ve + 1
        IN
        IF trailing THEN ParseErr("trailing data after quoted string", sq)
        ELSE IF vs = ve THEN ParseErr("empty attribute value", vs)
        ELSE IF s2 = e THEN ParseErr("trailing ';'", s2)
        ELSE IF ~SliceOK(t, ns, ne) \/ ~SliceOK(t, vs, ve) THEN [kind |-> "panic"]
        ELSE
            LET name == Slice(t, ns, ne)
                key == IF fold THEN ToLower(name) ELSE name
            IN ParseFrom(t, fold, s2, MapPut(pairs, key, Slice(t, vs, ve)), FALSE)

\* ParsePairs(text, ci)
ParsePairs(t, fold) == ParseFrom(t, fold, 0, EmptyMap, TRUE)

(***************************************************************************)
(* Request.FirstForwardedFor and Request.ClientAddr                        *)
(***************************************************************************)
Forwarded == <<"F", "o", "r", "w", "a", "r", "d", "e", "d">>
XForwardedFor ==
    <<"X", "-", "F", "o", "r", "w", "a", "r", "d", "e", "d", "-", "F", "o", "r">>
Cookie == <<"C", "o", "o", "k", "i", "e">>
ForKey == <<"f", "o", "r">>

Ok(s) == [kind |-> "ok", val |-> s]
Panic == [kind |-> "panic"]

\* The white space strings.TrimSpace removes, among the bytes of the model.
Spaces == {" ", "\t", "\n", "\r"}

\* strings.TrimSpace
RECURSIVE TrimSpace(_)
TrimSpace(s) ==
    IF s = <<>> THEN s
    ELSE IF s[1] \in Spaces THEN TrimSpace(Tail(s))
    ELSE IF s[Len(s)] \in Spaces THEN TrimSpace(SubSeq(s, 1, Len(s) - 1))
    ELSE s

\* strings.SplitN(s, ",", 2)[0]
FirstHop(s) == IF IndexOf(s, ",") = 0 THEN s ELSE SubSeq(s, 1, IndexOf(s, ",") - 1)

\* The loop over r.Header["Forwarded"] from value i on: the first non-empty
\* pairs["for"], the empty string when the loop ends without one, or the
\* panic of ParsePairs.
RECURSIVE ForwardedFrom(_, _)
ForwardedFrom(hs, i) ==
    IF i > Len(hs) THEN Ok(<<>>)
    ELSE LET pp == ParsePairs(hs[i], TRUE)
             f == IF pp.kind = "ok" THEN MapGet(pp.pairs, ForKey) ELSE <<>>
         IN IF pp.kind = "panic" THEN Panic
            ELSE IF f # <<>> THEN Ok(f)
            ELSE ForwardedFrom(hs, i + 1)

\* Request.FirstForwardedFor
FirstForwardedFor(r) ==
    LET fwd == ForwardedFrom(MapGet(r.Header, Forwarded), 1)
        xff == MapGet(r.Header, XForwardedFor)
    IN IF fwd.kind = "panic" THEN Panic
       ELSE IF fwd.val # <<>> THEN fwd
       ELSE IF Len(xff) # 0 THEN Ok(TrimSpace(FirstHop(xff[1])))
       ELSE Ok(<<>>)

\* Request.ClientAddr
ClientAddr(r) ==
    LET f == FirstForwardedFor(r)
    IN IF f.kind = "panic" THEN Panic
       ELSE IF f.val # <<>> THEN f
       ELSE Ok(r.RemoteAddr)

(***************************************************************************)
(* Library conversions Record.Format relies on (strconv, time, net/url,    *)
(* net/http), computed as the library computes them on the values of the   *)
(* model.                                                                  *)
(***************************************************************************)
Digits == <<"0", "1", "2", "3", "4", "5", "6", "7", "8", "9">>

\* The decimal digits of n >= 0.
RECURSIVE FormatNat(_)
FormatNat(n) ==
    IF n < 10 THEN <<Digits[n + 1]>>
    ELSE FormatNat(n \div 10) \o <<Digits[(n % 10) + 1]>>

\* strconv.FormatInt(n, 10)
FormatInt(n) == IF n < 0 THEN <<"-">> \o FormatNat(-n) ELSE FormatNat(n)

\* n >= 0 in decimal, padded with zeros on the left to w digits.
RECURSIVE Pad(_, _)
Pad(n, w) == IF w <= 1 THEN FormatNat(n) ELSE
                 IF Len(FormatNat(n)) >= w THEN FormatNat(n)
                 ELSE <<"0">> \o Pad(n, w - 1)

RECURSIVE Pow10(_)
Pow10(k) == IF k = 0 THEN 1 ELSE 10 * Pow10(k - 1)

(***************************************************************************)
(* int64 and float64.  A time.Duration is an int64 count of nanoseconds,   *)
(* and Format divides it as a float64.  An int64 d >= 0 is held as its     *)
(* decimal digits, most significant first, zero as <<>>, since it does not *)
(* fit the integers of the model; so is every wider integer of the         *)
(* arithmetic below.  A float64 x >= 0 is a mantissa and an exponent, and   *)
(* every float64 operation rounds to the nearest float64, ties to the even *)
(* mantissa, as the hardware does.                                         *)
(***************************************************************************)

\* F(v), with v evaluated once whatever F does with it.
With(v, F(_)) == CHOOSE r \in {F(x) : x \in {v}} : TRUE

Zeros(n) == [k \in 1..n |-> 0]

\* The digit of a at 10^(k-1).
DigitAt(a, k) == IF k >= 1 /\ k <= Len(a) THEN a[Len(a) + 1 - k] ELSE 0

\* The position of the last digit of a that is not zero, 0 if there is none.
LastDigit(a) == Len(a) - Cardinality({k \in 1..Len(a) : \A j \in k..Len(a) : a[j] = 0})

\* a without its leading zeros.
Strip(a) ==
    With(a, LAMBDA x :
        SubSeq(x, Cardinality({k \in 1..Len(x) : \A j \in 1..k : x[j] = 0}) + 1, Len(x)))

\* a padded with zeros on the left to w digits.
PadLeft(a, w) == With(a, LAMBDA x : Zeros(w - Len(x)) \o x)

\* The int64 of an integer 0 <= n < 2^31.
RECURSIVE Int64(_)
Int64(n) == IF n = 0 THEN <<>> ELSE Int64(n \div 10) \o <<n % 10>>

\* The integer of the first k digits of a, for an a of at most nine digits.
RECURSIVE ToInt(_, _)
ToInt(a, k) == IF k = 0 THEN 0 ELSE 10 * ToInt(a, k - 1) + a[k]

\* a cut after its first n digits, the rest zeros.
RoundDown(a, n) == With(a, LAMBDA x : SubSeq(x, 1, n) \o Zeros(Len(x) - n))

\* a cut after its first n digits and raised by one at the n-th.
RoundUp(a, n) ==
    With(a, LAMBDA x :
        With(n - Cardinality({k \in 1..n : \A i \in k..n : x[i] = 9}), LAMBDA j :
            SubSeq(x, 1, j - 1) \o <<x[j] + 1>> \o Zeros(Len(x) - j)))

\* a + 1
BigSucc(a) == With(a, LAMBDA x : Strip(RoundUp(<<0>> \o x, Len(x) + 1)))

\* a - 1, for a > 0.
BigPred(a) ==
    With(a, LAMBDA x :
        With(LastDigit(x), LAMBDA j :
            Strip(SubSeq(x, 1, j - 1) \o <<x[j] - 1>> \o [k \in 1..(Len(x) - j) |-> 9])))

\* The sums of the digits of a and b, place by place.
DigitSums(a, b) ==
    LET n == (IF Len(a) > Len(b) THEN Len(a) ELSE Len(b)) + 1
    IN SubSeq([i \in 1..n |-> DigitAt(a, n + 1 - i) + DigitAt(b, n + 1 - i)], 1, n)

\* a + b.  A carry reaches a place from the nearest lower place whose digits
\* sum to 10 or more, when the digits of every place between sum to 9.
BigAdd(a, b) ==
    With(<<a, b>>, LAMBDA ab :
        With(DigitSums(ab[1], ab[2]), LAMBDA s :
            Strip([i \in 1..Len(s) |->
                      (s[i] + (IF \E j \in (i + 1)..Len(s) :
                                      s[j] >= 10 /\ \A t \in (i + 1)..(j - 1) : s[t] = 9
                               THEN 1 ELSE 0)) % 10])))

\* Products are taken five digits at a time: a limb is five digits, and an
\* integer of limbs has its most significant limb first.
ToLimbs(a) ==
    With(a, LAMBDA x :
        LET n == (Len(x) + 4) \div 5
        IN SubSeq([i \in 1..n |->
                      DigitAt(x, 5 * (n - i) + 1) + 10 * DigitAt(x, 5 * (n - i) + 2)
                          + 100 * DigitAt(x, 5 * (n - i) + 3)
                          + 1000 * DigitAt(x, 5 * (n - i) + 4)
                          + 10000 * DigitAt(x, 5 * (n - i) + 5)], 1, n))

FromLimbs(l) ==
    With(l, LAMBDA x :
        Strip([k \in 1..(5 * Len(x)) |->
                  (x[(k + 4) \div 5] \div Pow10((5 * Len(x) - k) % 5)) % 10]))

\* l * c, for c = 2^j or c = 5^j with j <= 5: the multiples of 1/c have at
\* most five decimals, so the carry into a limb is decided by the limb below
\* it.
MulLimbs(l, c) ==
    Strip([i \in 1..(Len(l) + 1) |->
              ((IF i > 1 THEN c * l[i - 1] ELSE 0)
                   + (IF i <= Len(l) THEN (c * l[i]) \div 100000 ELSE 0)) % 100000])

RECURSIVE Pow(_, _)
Pow(b, k) == IF k = 0 THEN 1 ELSE b * Pow(b, k - 1)

\* l * b^k, for b = 2 or b = 5.
RECURSIVE MulPow(_, _, _)
MulPow(l, b, k) ==
    IF l = <<>> THEN <<>>
    ELSE With(Pow(b, IF k > 5 THEN 5 ELSE k), LAMBDA c :
             With(MulLimbs(l, c), LAMBDA x : IF k > 5 THEN MulPow(x, b, k - 5) ELSE x))

\* a * 2^k
BigMulPow2(a, k) == With(ToLimbs(a), LAMBDA l : FromLimbs(MulPow(l, 2, k)))

\* a * 5^k
BigMulPow5(a, k) == With(ToLimbs(a), LAMBDA l : FromLimbs(MulPow(l, 5, k)))

\* a / 2^k: the quotient q, whether the remainder is at least half of 2^k,
\* and whether anything but that half remains.  a / 2^k is a * 5^k with k
\* decimals.
ShiftRight(a, k, sticky) ==
    With(PadLeft(BigMulPow5(a, k), k + 1), LAMBDA p :
        [ q |-> Strip(SubSeq(p, 1, Len(p) - k)),
          half |-> k > 0 /\ p[Len(p) - k + 1] >= 5,
          sticky |-> \/ sticky
                     \/ k > 0 /\ p[Len(p) - k + 1] \notin {0, 5}
                     \/ \E j \in (Len(p) - k + 2)..Len(p) : p[j] # 0 ])

RECURSIVE IntBitLen(_)
IntBitLen(n) == IF n = 0 THEN 0 ELSE 1 + IntBitLen(n \div 2)

\* bits.Len of a
RECURSIVE BitLen(_)
BitLen(a) ==
    With(a, LAMBDA x :
        IF Len(x) <= 9 THEN With(ToInt(x, Len(x)), LAMBDA n : IntBitLen(n))
        ELSE 27 + BitLen(ShiftRight(x, 27, FALSE).q))

\* A float64 >= 0 is zero or m * 2^e with 2^52 <= m < 2^53.
FloatZero == [m |-> <<>>, e |-> 0]

\* 2^52, the least mantissa, and 2^53, the first integer past the greatest.
MinMantissa == <<4, 5, 0, 3, 5, 9, 9, 6, 2, 7, 3, 7, 0, 4, 9, 6>>
EndMantissa == <<9, 0, 0, 7, 1, 9, 9, 2, 5, 4, 7, 4, 0, 9, 9, 2>>

\* The float64 nearest to n * 2^e, ties to the even mantissa; sticky says
\* that the exact value is a little more than n * 2^e.
RoundFloat(n, e, sticky) ==
    With(n, LAMBDA x :
        IF x = <<>> THEN FloatZero
        ELSE With(BitLen(x), LAMBDA bits :
                 IF bits <= 53
                 THEN [m |-> BigMulPow2(x, 53 - bits), e |-> e - (53 - bits)]
                 ELSE With(ShiftRight(x, bits - 53, sticky), LAMBDA s :
                          With(IF s.half /\ (s.sticky \/ s.q[Len(s.q)] % 2 = 1)
                               THEN BigSucc(s.q) ELSE s.q, LAMBDA m :
                              IF m = EndMantissa
                              THEN [m |-> MinMantissa, e |-> e + (bits - 53) + 1]
                              ELSE [m |-> m, e |-> e + (bits - 53)]))))

\* float64(d)
FloatOfInt(d) == RoundFloat(d, 0, FALSE)

\* x / 10^k, the float64 quotient.
FloatDivPow10(x, k) ==
    With(x, LAMBDA y :
        IF y.m = <<>> THEN FloatZero
        ELSE With(BigMulPow2(y.m, 4 * k + 2), LAMBDA n :
                 RoundFloat(SubSeq(n, 1, Len(n) - k), y.e - (4 * k + 2),
                            \E j \in (Len(n) - k + 1)..Len(n) : n[j] # 0)))

\* x + y, the float64 sum.
FloatAdd(x, y) ==
    With(<<x, y>>, LAMBDA xy :
        IF xy[1].m = <<>> THEN xy[2]
        ELSE IF xy[2].m = <<>> THEN xy[1]
        ELSE LET e == IF xy[1].e < xy[2].e THEN xy[1].e ELSE xy[2].e
             IN RoundFloat(BigAdd(BigMulPow2(xy[1].m, xy[1].e - e),
                                  BigMulPow2(xy[2].m, xy[2].e - e)), e, FALSE))

\* time.Duration.Seconds
Seconds(d) ==
    With(d, LAMBDA x :
        FloatAdd(FloatOfInt(SubSeq(x, 1, Len(x) - 9)),
                 FloatDivPow10(
                     FloatOfInt(Strip(SubSeq(x, IF Len(x) > 9 THEN Len(x) - 8 ELSE 1, Len(x)))),
                     9)))

\* n * 2^e * 10^p, for p >= -e.
Scaled(n, e, p) ==
    IF e >= 0 THEN BigMulPow2(n, e) \o Zeros(p) ELSE BigMulPow5(n, -e) \o Zeros(p + e)

\* decimal.Round's choice: up when the digits cut are more than half a unit
\* of the n-th digit, and on exactly half when the n-th digit is odd.
ShouldRoundUp(a, n) ==
    IF n >= LastDigit(a) THEN FALSE
    ELSE IF a[n + 1] = 5 /\ n + 1 = LastDigit(a) THEN n > 0 /\ a[n] % 2 = 1
    ELSE a[n + 1] >= 5

\* strconv's roundShortest: the digits of v are walked from the left until
\* cutting there, down or up, stays between lo and hi; the three have the
\* same length.  delta says how far the digits of hi so far are above those
\* of v: 0 equal, 1 by one unit, 2 by more.
RECURSIVE RoundShortest(_, _, _, _, _, _)
RoundShortest(v, lo, hi, inclusive, n, delta) ==
    IF n > LastDigit(v) THEN v
    ELSE LET okdown == lo[n] # v[n] \/ (inclusive /\ n = LastDigit(lo))
             d == IF delta = 0 /\ v[n] + 1 < hi[n] THEN 2
                  ELSE IF delta = 0 /\ v[n] # hi[n] THEN 1
                  ELSE IF delta = 1 /\ (v[n] # 9 \/ hi[n] # 0) THEN 2
                  ELSE delta
             okup == d > 0 /\ (inclusive \/ d > 1 \/ n < LastDigit(hi))
         IN IF okdown /\ okup
            THEN (IF ShouldRoundUp(v, n) THEN RoundUp(v, n) ELSE RoundDown(v, n))
            ELSE IF okdown THEN RoundDown(v, n)
            ELSE IF okup THEN RoundUp(v, n)
            ELSE RoundShortest(v, lo, hi, inclusive, n + 1, d)

\* The digits of a as text.
DigitString(a) == With(a, LAMBDA x : SubSeq([k \in 1..Len(x) |-> Digits[x[k] + 1]], 1, Len(x)))

\* The %f form of c / 10^p, with no more decimals than it needs.
FixedPoint(c, p) ==
    With(c, LAMBDA x :
        With(LastDigit(x), LAMBDA end :
            (IF \A k \in 1..(Len(x) - p) : x[k] = 0 THEN <<"0">>
             ELSE DigitString(Strip(SubSeq(x, 1, Len(x) - p))))
                \o (IF end <= Len(x) - p THEN <<>>
                    ELSE <<".">> \o DigitString(SubSeq(x, Len(x) - p + 1, end)))))

\* The midpoints between x and the float64 below it and above it, and x
\* itself, as integers of the same length in units of 10^-p.
Neighbours(x, p) ==
    With(<< Scaled(IF x.m = MinMantissa THEN BigPred(BigMulPow2(x.m, 2))
                   ELSE BigPred(BigMulPow2(x.m, 1)),
                   IF x.m = MinMantissa THEN x.e - 2 ELSE x.e - 1, p),
            Scaled(x.m, x.e, p),
            Scaled(BigSucc(BigMulPow2(x.m, 1)), x.e - 1, p) >>, LAMBDA b :
        With(IF Len(b[3]) > p THEN Len(b[3]) ELSE p + 1, LAMBDA w :
            [lo |-> PadLeft(b[1], w), v |-> PadLeft(b[2], w), hi |-> PadLeft(b[3], w)]))

\* strconv.FormatFloat(x, 'f', -1, 64): the shortest decimal that reads back
\* as x.  The decimals that read back as x lie between the two midpoints of
\* x and its neighbours, the midpoints included when the mantissa is even.
FormatFloat(x) ==
    With(x, LAMBDA y :
        IF y.m = <<>> THEN <<"0">>
        ELSE With((IF y.e < 0 THEN -y.e ELSE 0) + 2, LAMBDA p :
                 With(Neighbours(y, p), LAMBDA b :
                     FixedPoint(RoundShortest(b.v, b.lo, b.hi, y.m[Len(y.m)] % 2 = 0, 1, 0), p))))

MonthNames ==
    << <<"J", "a", "n">>, <<"F", "e", "b">>, <<"M", "a", "r">>, <<"A", "p", "r">>,
       <<"M", "a", "y">>, <<"J", "u", "n">>, <<"J", "u", "l">>, <<"A", "u", "g">>,
       <<"S", "e", "p">>, <<"O", "c", "t">>, <<"N", "o", "v">>, <<"D", "e", "c">> >>

\* strings.HasPrefix
HasPrefix(s, p) == Len(s) >= Len(p) /\ SubSeq(s, 1, Len(p)) = p

\* strings.TrimPrefix
TrimPrefix(s, p) == IF HasPrefix(s, p) THEN SubSeq(s, Len(p) + 1, Len(s)) ELSE s

Drop(s, n) == SubSeq(s, n + 1, Len(s))

\* The zone offset as "-0700" renders it: the offset in whole minutes,
\* cut towards zero, then its sign, hours and minutes.
FormatZone(off) ==
    LET zone == IF off < 0 THEN -((-off) \div 60) ELSE off \div 60
    IN (IF zone < 0 THEN <<"-">> ELSE <<"+">>)
           \o Pad((IF zone < 0 THEN -zone ELSE zone) \div 60, 2)
           \o Pad((IF zone < 0 THEN -zone ELSE zone) % 60, 2)

\* time.Time.Format(layout).  The layout elements interpreted are those of
\* the layout Format itself passes, "[02/Jan/2006:15:04:05 -0700]"; every
\* other byte is copied.  The other layouts of the model (the keys of
\* %{FORMAT}t) hold no digit and none of "Jan", "Mon", "MST", "PM", so no
\* other layout element occurs in them.
RECURSIVE TimeFormat(_, _)
TimeFormat(t, layout) ==
    IF layout = <<>> THEN <<>>
    ELSE IF HasPrefix(layout, <<"2", "0", "0", "6">>)
        THEN Pad(t.year, 4) \o TimeFormat(t, Drop(layout, 4))
    ELSE IF HasPrefix(layout, <<"J", "a", "n">>)
            /\ ~HasPrefix(layout, <<"J", "a", "n", "u", "a", "r", "y">>)
        THEN MonthNames[t.month] \o TimeFormat(t, Drop(layout, 3))
    ELSE IF HasPrefix(layout, <<"0", "2">>)
        THEN Pad(t.day, 2) \o TimeFormat(t, Drop(layout, 2))
    ELSE IF HasPrefix(layout, <<"1", "5">>)
        THEN Pad(t.hour, 2) \o TimeFormat(t, Drop(layout, 2))
    ELSE IF HasPrefix(layout, <<"0", "4">>)
        THEN Pad(t.minute, 2) \o TimeFormat(t, Drop(layout, 2))
    ELSE IF HasPrefix(layout, <<"0", "5">>)
        THEN Pad(t.second, 2) \o TimeFormat(t, Drop(layout, 2))
    ELSE IF HasPrefix(layout, <<"-", "0", "7", "0", "0">>)
        THEN FormatZone(t.offset) \o TimeFormat(t, Drop(layout, 5))
    ELSE <<layout[1]>> \o TimeFormat(t, Tail(layout))

\* time.Time{}: January 1, year 1, 00:00:00 UTC.
ZeroTime ==
    [year |-> 1, month |-> 1, day |-> 1, hour |-> 0, minute |-> 0, second |-> 0,
     offset |-> 0]

IsDigit(c) == \E k \in 1..10 : Digits[k] = c

\* The bytes of an HTTP token (httpguts.IsTokenRune); the apostrophe and the
\* backquote, token bytes too, are no bytes of the model.
IsTokenByte(c) ==
    \/ IsLower(c) \/ IsUpper(c) \/ IsDigit(c)
    \/ c \in {"!", "#", "$", "%", "&", "*", "+", "-", ".", "^", "_", "|", "~"}

\* http.CanonicalHeaderKey: a key holding a byte that is no token byte is
\* returned unchanged; otherwise the first letter and every letter after a
\* '-' is upper-cased and the others lower-cased.
CanonicalHeaderKey(s) ==
    IF \E k \in 1..Len(s) : ~IsTokenByte(s[k]) THEN s
    ELSE [k \in 1..Len(s) |->
            IF k = 1 \/ s[k - 1] = "-" THEN UpperByte(s[k]) ELSE LowerByte(s[k])]

\* strings.Join(list, sep)
RECURSIVE Join(_, _)
Join(list, sep) ==
    IF list = <<>> THEN <<>>
    ELSE IF Len(list) = 1 THEN list[1]
    ELSE list[1] \o sep \o Join(Tail(list), sep)

\* http.Header.Get(key) for a key in canonical form.
HeaderGet(h, key) == IF MapGet(h, key) = <<>> THEN <<>> ELSE MapGet(h, key)[1]

\* The bytes url.URL.EscapedPath leaves as they are (unreserved bytes and the
\* reserved bytes allowed in a path).
PathSafe(c) ==
    \/ IsLower(c) \/ IsUpper(c) \/ IsDigit(c)
    \/ c \in {"-", "_", ".", "~", "$", "&", "+", ",", "/", ":", ";", "=", "@"}

\* %XX for the other bytes of the model's paths.
EscapeByte(c) ==
    IF PathSafe(c) THEN <<c>>
    ELSE CASE c = " " -> <<"%", "2", "0">>
           [] c = "\"" -> <<"%", "2", "2">>
           [] c = "%" -> <<"%", "2", "5">>
           [] c = "?" -> <<"%", "3", "F">>

RECURSIVE EscapePath(_)
EscapePath(s) == IF s = <<>> THEN <<>> ELSE EscapeByte(s[1]) \o EscapePath(Tail(s))

\* A nil *url.URL.
NilURL == [isNil |-> TRUE]

URL(path, query) == [isNil |-> FALSE, Path |-> path, RawQuery |-> query]

\* url.URL.String() of a URL with a Path and a RawQuery only, as the server
\* parses a request target: the escaped path ("./" first when its first
\* segment holds a ':'), then '?' and the query when there is one.
URLString(u) ==
    LET path == EscapePath(u.Path)
        segment == IF IndexOf(path, "/") = 0 THEN path
                   ELSE SubSeq(path, 1, IndexOf(path, "/") - 1)
    IN (IF IndexOf(segment, ":") # 0 THEN <<".", "/">> ELSE <<>>)
           \o path
           \o (IF u.RawQuery # <<>> THEN <<"?">> \o u.RawQuery ELSE <<>>)

(***************************************************************************)
(* record.go: Record.Format                                                *)
(***************************************************************************)
SimpleLogFormat ==
    <<"%", "a", " ", "\"", "%", "r", "\"", " ", "%", "s", " ", "%", "B">>

BasicLogFormat ==
    <<"%", "a", " ", "%", "v", " ", "%", "u", " ", "\"", "%", "r", "\"", " ",
      "%", "s", " ", "%", "T", " ", "%", "B", " ", "\"",
      "%", "{", "U", "s", "e", "r", "-", "A", "g", "e", "n", "t", "}", "i", "\"">>

CommonLogFormat ==
    <<"%", "a", " ", "-", " ", "%", "u", " ", "%", "t", " ", "\"", "%", "r", "\"",
      " ", "%", "s", " ", "%", "B">>

NCSALogFormat ==
    CommonLogFormat
        \o <<" ", "\"", "%", "{", "R", "e", "f", "e", "r", "e", "r", "}", "i", "\"",
             " ", "\"",
             "%", "{", "U", "s", "e", "r", "-", "A", "g", "e", "n", "t", "}", "i", "\"">>

\* The layout of the 't' directive.
CommonTimeLayout ==
    <<"[", "0", "2", "/", "J", "a", "n", "/", "2", "0", "0", "6", ":",
      "1", "5", ":", "0", "4", ":", "0", "5", " ", "-", "0", "7", "0", "0", "]">>

\* case 'r': the method, the protocol, then r.URL.String(); a nil URL makes
\* String dereference a nil pointer.
RequestLine(r) ==
    IF r.Request.URL.isNil THEN Panic
    ELSE Ok(r.Request.Method \o <<" ">> \o r.Request.Proto \o <<" ">>
                \o URLString(r.Request.URL))

\* default: of the inner switch on format[i]: '%' and the byte.
UnknownDirective(c) == Ok(<<"%", c>>)

\* The single-letter directives: the text written for format[i] = c.
Single(r, c) ==
    CASE c = "%" -> Ok(<<"%">>)
      [] c = "B" -> Ok(FormatInt(r.Response.Size))
      [] c = "D" -> Ok(FormatFloat(FloatDivPow10(FloatOfInt(r.Duration), 3)))
      [] c = "H" -> Ok(r.Request.Proto)
      [] c = "T" -> Ok(FormatFloat(Seconds(r.Duration)))
      [] c = "U" -> IF r.Request.URL.isNil THEN Panic ELSE Ok(r.Request.URL.Path)
      [] c = "a" -> ClientAddr(r.Request)
      [] c = "m" -> Ok(r.Request.Method)
      [] c = "q" -> IF r.Request.URL.isNil THEN Panic
                    ELSE IF r.Request.URL.RawQuery # <<>>
                         THEN Ok(<<"?">> \o r.Request.URL.RawQuery)
                         ELSE Ok(<<>>)
      [] c = "r" -> RequestLine(r)
      [] c = "s" -> Ok(FormatInt(r.Response.Status))
      [] c = "t" -> Ok(TimeFormat(r.StartTime, CommonTimeLayout))
      [] c = "u" -> IF r.Request.User # <<>> THEN Ok(r.Request.User) ELSE Ok(<<"-">>)
      [] c = "v" -> Ok(r.Request.Host)
      [] OTHER -> UnknownDirective(c)

\* default: of the switch on the unit of %{UNIT}T
UnknownUnit(key) == Ok(<<"%", "{">> \o key \o <<"}", "T">>)

UnknownParam_DropsLetter(key, c) == Ok(<<"%", "{">> \o key \o <<"}">>)

\* default: of the switch on format[j]
UnknownParam(key, c) == Ok(<<"%", "{">> \o key \o <<"}", c>>)

\* case 'C': the error of ParsePairs is dropped, and a nil map reads as "".
CookieValue(r, key) ==
    LET cookies == ParsePairs(HeaderGet(r.Request.Header, Cookie), FALSE)
    IN IF cookies.kind = "panic" THEN Panic
       ELSE IF cookies.kind = "ok" THEN Ok(MapGet(cookies.pairs, key))
       ELSE Ok(<<>>)

EndPrefix == <<"e", "n", "d", ":">>
BeginPrefix == <<"b", "e", "g", "i", "n", ":">>

\* The directives %{key}c: the text written for format[j] = c.
Param(r, key, c) ==
    CASE c = "C" -> CookieValue(r, key)
      [] c = "T" ->
            CASE key = <<"m", "s">> -> Ok(FormatFloat(FloatDivPow10(FloatOfInt(r.Duration), 6)))
              [] key = <<"u", "s">> -> Ok(FormatFloat(FloatDivPow10(FloatOfInt(r.Duration), 3)))
              [] key = <<"s">> -> Ok(FormatFloat(Seconds(r.Duration)))
              [] OTHER -> UnknownUnit(key)
      [] c = "i" -> Ok(Join(MapGet(r.Request.Header, CanonicalHeaderKey(key)), <<",">>))
      [] c = "o" -> Ok(Join(MapGet(r.Response.Header, CanonicalHeaderKey(key)), <<",">>))
      [] c = "t" ->
            IF HasPrefix(key, EndPrefix)
            THEN Ok(TimeFormat(r.EndTime, TrimPrefix(key, EndPrefix)))
            ELSE Ok(TimeFormat(r.StartTime, TrimPrefix(key, BeginPrefix)))
      [] OTHER -> UnknownParam(key, c)

\* The two early returns of case '{': '%' and format[i:], with format[i] the
\* opening brace.
Unterminated(f, i) == Ok(<<"%">> \o Slice(f, i, Len(f)))

\* The loop of Format from index i on, with b the text built so far.
RECURSIVE FormatFrom(_, _, _, _)
FormatFrom(r, f, i, b) ==
    LET l == Len(f) IN
    IF ~(i < l) THEN Ok(b)
    ELSE IF At(f, i) # "%" THEN FormatFrom(r, f, i + 1, b \o <<At(f, i)>>)
    ELSE IF i + 1 = l THEN Ok(b \o <<"%">>)
    ELSE IF At(f, i + 1) # "{" THEN
        LET d == Single(r, At(f, i + 1))
        IN IF d.kind = "panic" THEN Panic
           ELSE FormatFrom(r, f, i + 2, b \o d.val)
    ELSE
        LET j == ScanTo(f, i + 2, {"}"})
            rest == Unterminated(f, i + 1)
        IN IF j = l THEN Ok(b \o rest.val)
           ELSE IF j + 1 = l THEN Ok(b \o rest.val)
           ELSE LET d == Param(r, Slice(f, i + 2, j), At(f, j + 1))
                IN IF d.kind = "panic" THEN Panic
                   ELSE FormatFrom(r, f, j + 2, b \o d.val)

\* Record.Format(format)
Format(r, f) == FormatFrom(r, f, 0, <<>>)

(***************************************************************************)
(* Record, Request and Response.                                           *)
(*                                                                         *)
(* A Go map and a *url.URL are references.  They are modelled as           *)
(* addresses into a heap, so that two fields holding the same map are      *)
(* told apart from two fields holding equal maps.                          *)
(***************************************************************************)
\* The nil map and the nil *url.URL.
NilRef == "nil"

\* Request{}
ZeroRequest ==
    [ Method |-> <<>>, URI |-> <<>>, URL |-> NilRef, Proto |-> <<>>,
      Header |-> NilRef, ContentLength |-> 0, Host |-> <<>>,
      RemoteAddr |-> <<>>, User |-> <<>> ]

\* Response{}
ZeroResponse ==
    [ Status |-> 0, Size |-> 0, Hijacked |-> FALSE, Header |-> NilRef ]

\* new(Record)
NewRecord ==
    [ Request |-> ZeroRequest, Response |-> ZeroResponse,
      StartTime |-> ZeroTime, EndTime |-> ZeroTime, Duration |-> <<>> ]

Authorization ==
    <<"A", "u", "t", "h", "o", "r", "i", "z", "a", "t", "i", "o", "n">>
BasicPrefix == <<"b", "a", "s", "i", "c", " ">>

\* base64.StdEncoding.DecodeString, on the payloads the model's requests
\* carry: "dTpw" is "u:p", "dQ==" is "u", and "!" is not base64.
Base64Decode(s) ==
    IF s = <<"d", "T", "p", "w">> THEN Ok(<<"u", ":", "p">>)
    ELSE IF s = <<"d", "Q", "=", "=">> THEN Ok(<<"u">>)
    ELSE [kind |-> "err"]

\* The username of req.BasicAuth(), for a request whose header map is h: the
\* Authorization value must start with "Basic " (in any case) and decode to
\* user:password; otherwise the username is empty.
BasicAuth(h) ==
    LET auth == HeaderGet(h, Authorization)
    IN IF Len(auth) < Len(BasicPrefix) THEN <<>>
       ELSE IF ToLower(SubSeq(auth, 1, Len(BasicPrefix))) # BasicPrefix THEN <<>>
       ELSE LET c == Base64Decode(Drop(auth, Len(BasicPrefix)))
            IN IF c.kind # "ok" THEN <<>>
               ELSE IF IndexOf(c.val, ":") = 0 THEN <<>>
               ELSE SubSeq(c.val, 1, IndexOf(c.val, ":") - 1)

\* Request.Reset
RequestReset(r) == ZeroRequest

\* Request.Update(req), with the heap hp that req.Header points into: URL and
\* Header are assigned as they are, that is, as references.
RequestUpdate(r, q, hp) ==
    [ Method        |-> q.Method,
      URI           |-> q.RequestURI,
      URL           |-> q.URL,
      Proto         |-> q.Proto,
      Header        |-> q.Header,
      ContentLength |-> q.ContentLength,
      Host          |-> q.Host,
      RemoteAddr    |-> q.RemoteAddr,
      User          |-> BasicAuth(hp[q.Header]) ]

\* Response.Reset
ResponseReset(r) == ZeroResponse

\* Response.Update(w), where hdr is the map w.Header() returns.
ResponseUpdate(r, w, hdr) ==
    [ Status   |-> Status(w),
      Size     |-> Size(w),
      Hijacked |-> Hijacked(w),
      Header   |-> hdr ]

\* The time.Time of clock reading t.
TimeAt(t) ==
    [year |-> 2026, month |-> 1, day |-> 1, hour |-> 0, minute |-> 0, second |-> t,
     offset |-> 0]

\* The greatest time.Duration, 2^63 - 1.
MaxDuration == <<9, 2, 2, 3, 3, 7, 2, 0, 3, 6, 8, 5, 4, 7, 7, 5, 8, 0, 7>>

\* t.Sub(u) in nanoseconds, for a clock reading t and a u that is an earlier
\* reading or the zero time: from the zero time to a clock reading are more
\* nanoseconds than an int64 holds, and Sub answers the greatest Duration.
Sub(t, u) ==
    IF u = ZeroTime THEN (IF t = ZeroTime THEN <<>> ELSE MaxDuration)
    ELSE Strip(Int64(t.second - u.second) \o Zeros(9))

\* Record.Start, with t the time time.Now() returns.
Start(r, t) == [r EXCEPT !.StartTime = t]

\* Record.End, with t the time time.Now() returns.
End(r, t) == [r EXCEPT !.EndTime = t, !.Duration = Sub(t, r.StartTime)]

Reset_KeepsResponse(r) ==
    [r EXCEPT !.Request = RequestReset(r.Request),
              !.StartTime = ZeroTime, !.EndTime = ZeroTime, !.Duration = <<>>]

\* Record.Reset
Reset(r) ==
    [r EXCEPT !.Request = RequestReset(r.Request),
              !.Response = ResponseReset(r.Response),
              !.StartTime = ZeroTime, !.EndTime = ZeroTime, !.Duration = <<>>]

\* The Record as Format reads it: references followed through the heap hp, a
\* nil map read as an empty map.
View(r, hp) ==
    [ Request |->
          [r.Request EXCEPT
              !.URL = IF @ = NilRef THEN NilURL ELSE hp[@],
              !.Header = IF @ = NilRef THEN EmptyMap ELSE hp[@]],
      Response |->
          [r.Response EXCEPT !.Header = IF @ = NilRef THEN EmptyMap ELSE hp[@]],
      StartTime |-> r.StartTime, EndTime |-> r.EndTime, Duration |-> r.Duration ]

(***************************************************************************)
(* Inputs of ParsePairs.                                                   *)
(***************************************************************************)
\* The longest header value drawn from all strings over PairBytes.
MaxTextLen == 4
\* The most pairs of a header value built from pairs.
MaxPairs == 2

PairBytes == {"a", "A", "=", ";", "\"", "1"}

AllTexts == UNION {[1..n -> PairBytes] : n \in 0..MaxTextLen}

PairNames == {<<"a">>, <<"A">>, <<"b">>}
PairValues == {<<"1">>, <<"2">>}
PairSet == [name : PairNames, value : PairValues, quoted : BOOLEAN]
PairSeqs == UNION {[1..n -> PairSet] : n \in 1..MaxPairs}

\* name=value or name="value"
RenderPair(p) ==
    p.name \o <<"=">> \o (IF p.quoted THEN <<"\"">> \o p.value \o <<"\"">> ELSE p.value)

\* The pairs of ps joined by ';'.
RECURSIVE RenderPairs(_)
RenderPairs(ps) ==
    IF Len(ps) = 1 THEN RenderPair(ps[1])
    ELSE RenderPair(ps[1]) \o <<";">> \o RenderPairs(Tail(ps))

\* The header values ParsePairs is applied to.
Texts == AllTexts \cup {RenderPairs(ps) : ps \in PairSeqs}

(***************************************************************************)
(* Specifications.  Each applies one part of the package to its inputs and *)
(* leaves the variables of the other parts at their idle values.           *)
(***************************************************************************)
IdleWrap ==
    /\ under = NewUnder({})
    /\ rw = WrapResponseWriter(NewUnder({}))
    /\ last = [op |-> "none", res |-> "ok"]
    /\ headerCalls = <<>>

IdlePairs ==
    /\ text = <<>>
    /\ ci = FALSE
    /\ pairsOut = Pending

IdleAddr ==
    /\ req = [Header |-> EmptyMap, RemoteAddr |-> <<>>]
    /\ addrOut = Pending

IdleFormat ==
    /\ format = <<>>
    /\ rec = [isNil |-> TRUE]
    /\ formatOut = Pending

IdleRecord ==
    /\ heap = EmptyMap
    /\ liveReq = NilRef
    /\ record = NewRecord
    /\ seen = Pending
    /\ done = [since |-> {}, reused |-> FALSE]
    /\ now = 0

IdleServe ==
    /\ logFn = NilRef
    /\ pool = {}
    /\ records = <<>>
    /\ exch = <<>>

\* A wrapper freshly built by WrapResponseWriter over a writer supporting
\* any of the 16 subsets of the optional interfaces.
Init ==
    /\ \E S \in SUBSET Caps :
          /\ under = NewUnder(S)
          /\ rw = WrapResponseWriter(NewUnder(S))
    /\ last = [op |-> "none", res |-> "ok"]
    /\ headerCalls = <<>>
    /\ IdlePairs /\ IdleAddr /\ IdleFormat /\ IdleRecord /\ IdleServe

\* The handler's calls on the wrapper, in any order.
Next ==
    \/ \E len \in 0..MaxWrite, n \in 0..MaxWrite, err \in BOOLEAN : Write(len, n, err)
    \/ \E c \in StatusCodes : WriteHeader(c)
    \/ Header
    \/ CloseNotify
    \/ Flush
    \/ \E err \in BOOLEAN : Hijack(err)
    \/ \E err \in BOOLEAN : Push(err)

Spec == Init /\ [][Next]_vars

\* C1: the wrapper offers a capability exactly when the wrapped writer does,
\* for each of the 16 subsets, and a call of a capability the wrapper offers
\* reaches the wrapped writer and does not abort.
C1_WrapperOffersExactlyWrapped ==
    /\ \A c \in Caps : Offers(rw, c) <=> c \in under.caps
    /\ last.res # "panic"
    /\ (last.op \in {"CloseNotify", "Flush", "Hijack", "Push"} => under.lastCall = last.op)

\* C2: Size() is the sum of the byte counts the wrapped writer returned from
\* the writes, whatever else was called, and it never decreases.
C2_SizeIsSumOfReturnedCounts ==
    /\ [](Size(rw) = under.written)
    /\ [][Size(rw)' >= Size(rw)]_vars

\* Several writes were made, and the last one returned fewer bytes than it
\* was given, together with an error.
C2_Witness ==
    /\ last.op = "Write"
    /\ last.res = "err"
    /\ last.n > 0
    /\ last.n < last.asked
    /\ Size(rw) > last.n

\* C3: Status() is 200 until WriteHeader is called, and from then on the
\* code of the first call, whatever later calls pass.
C3_StatusIsFirstWriteHeader ==
    Status(rw) = IF headerCalls = <<>> THEN 200 ELSE headerCalls[1]

\* C4: on a wrapper that offers Hijack, Hijacked() is false as long as Hijack
\* has not been invoked and true once it has been, whether or not the wrapped
\* writer's Hijack returned an error; no other call changes it.
C4_HijackedIffHijackInvoked ==
    /\ Offers(rw, "Hijacker") => (Hijacked(rw) <=> under.hijackCalls > 0)
    /\ ~Offers(rw, "Hijacker") => ~Hijacked(rw)

\* Hijack was invoked after some bytes were written, and the wrapped
\* writer's Hijack returned an error.
C4_Witness ==
    /\ Offers(rw, "Hijacker")
    /\ last.op = "Hijack"
    /\ last.res = "err"
    /\ Size(rw) > 0
    /\ Hijacked(rw)

\* One call ParsePairs(text, ci).
CallParsePairs ==
    /\ pairsOut = Pending
    /\ pairsOut' = ParsePairs(text, ci)
    /\ UNCHANGED <<text, ci, wrapVars, addrVars, fmtVars, recVars, now, serveVars>>

InitPairs ==
    /\ text \in Texts
    /\ ci \in BOOLEAN
    /\ pairsOut = Pending
    /\ IdleWrap /\ IdleAddr /\ IdleFormat /\ IdleRecord /\ IdleServe

NextPairs == CallParsePairs

SpecPairs == InitPairs /\ [][NextPairs]_vars

(***************************************************************************)
(* A reference reading of the attribute-pair grammar, used to state the    *)
(* claims about ParsePairs: the value is cut at every ';', and each piece  *)
(* at its first '='.                                                       *)
(***************************************************************************)
\* strings.Split(s, sep) for a one-byte separator.
RECURSIVE Split(_, _)
Split(s, sep) ==
    IF IndexOf(s, sep) = 0 THEN <<s>>
    ELSE <<SubSeq(s, 1, IndexOf(s, sep) - 1)>>
             \o Split(SubSeq(s, IndexOf(s, sep) + 1, Len(s)), sep)

NoQuote(s) == \A k \in 1..Len(s) : s[k] # "\""

PieceName(p) == SubSeq(p, 1, IndexOf(p, "=") - 1)
PieceRaw(p) == SubSeq(p, IndexOf(p, "=") + 1, Len(p))
PieceQuoted(p) == PieceRaw(p) # <<>> /\ PieceRaw(p)[1] = "\""
PieceValue(p) ==
    IF PieceQuoted(p) THEN SubSeq(PieceRaw(p), 2, Len(PieceRaw(p)) - 1) ELSE PieceRaw(p)

\* name=value with a non-empty name and a non-empty value that is either
\* free of quotes or one properly closed quoted string.
GoodPiece(p) ==
    /\ IndexOf(p, "=") > 1
    /\ PieceRaw(p) # <<>>
    /\ \/ NoQuote(PieceRaw(p))
       \/ /\ Len(PieceRaw(p)) >= 3
          /\ PieceRaw(p)[1] = "\""
          /\ PieceRaw(p)[Len(PieceRaw(p))] = "\""
          /\ NoQuote(PieceValue(p))

\* A non-empty header value made of good pieces only.
WellFormed(t) ==
    /\ t # <<>>
    /\ \A k \in 1..Len(Split(t, ";")) : GoodPiece(Split(t, ";")[k])

PieceKey(p, fold) == IF fold THEN ToLower(PieceName(p)) ELSE PieceName(p)

\* Two pieces of t carry the same attribute name.
HasDuplicate(t, fold) ==
    \E i, j \in 1..Len(Split(t, ";")) :
        i < j /\ PieceKey(Split(t, ";")[i], fold) = PieceKey(Split(t, ";")[j], fold)

\* The value of the last piece of t whose name is key.
LastValue(t, fold, key) ==
    LET ps == Split(t, ";")
        j == CHOOSE j \in 1..Len(ps) :
                /\ PieceKey(ps[j], fold) = key
                /\ \A k \in (j + 1)..Len(ps) : PieceKey(ps[k], fold) # key
    IN PieceValue(ps[j])

\* text is name="" alone or followed by ';'.
EmptyQuotedValue(t) ==
    LET eq == IndexOf(t, "=")
    IN /\ eq > 1
       /\ \A k \in 1..(eq - 1) : t[k] # ";"
       /\ Len(t) >= eq + 2
       /\ t[eq + 1] = "\""
       /\ t[eq + 2] = "\""
       /\ (Len(t) > eq + 2 => t[eq + 3] = ";")

\* C8: ParsePairs fails closed: it never aborts; on a value without quotes it
\* returns an error exactly when some piece has an empty name, no '=', or an
\* empty value (which covers a ';' where '=' was expected and a trailing ';');
\* an empty quoted value (a="") is an error; and the empty string is no error.
C8_ParsePairsFailsClosed ==
    pairsOut # Pending =>
        /\ pairsOut.kind \in {"ok", "err"}
        /\ (text = <<>> => pairsOut.kind = "ok")
        /\ (NoQuote(text) /\ text # <<>> =>
                (pairsOut.kind = "err" <=> ~WellFormed(text)))
        /\ (EmptyQuotedValue(text) => pairsOut.kind = "err")

\* C9 as claimed: a value in which the same attribute name occurs in two
\* pairs makes ParsePairs return an error.
C9_DuplicateKeyIsError ==
    (pairsOut # Pending /\ WellFormed(text) /\ HasDuplicate(text, ci)) =>
        pairsOut.kind = "err"

\* C9 as amended: on a well-formed value in which the same attribute name
\* occurs in two pairs, ParsePairs returns a map and no error, and every name
\* maps to the value of the last pair that carries it.
C9_DuplicateKeyLastWins ==
    (pairsOut # Pending /\ WellFormed(text) /\ HasDuplicate(text, ci)) =>
        /\ pairsOut.kind = "ok"
        /\ ~pairsOut.nil
        /\ DOMAIN pairsOut.pairs =
               {PieceKey(Split(text, ";")[k], ci) : k \in 1..Len(Split(text, ";"))}
        /\ \A key \in DOMAIN pairsOut.pairs :
               pairsOut.pairs[key] = LastValue(text, ci, key)

\* A value whose two pairs have names that differ only in case and different
\* values has been parsed in the case-insensitive mode.
C9_Witness ==
    /\ pairsOut # Pending
    /\ ci
    /\ WellFormed(text)
    /\ HasDuplicate(text, TRUE)
    /\ ~HasDuplicate(text, FALSE)
    /\ Len(Split(text, ";")) = 2
    /\ PieceValue(Split(text, ";")[1]) # PieceValue(Split(text, ";")[2])
    /\ pairsOut.kind = "ok"

(***************************************************************************)
(* Inputs of ClientAddr.                                                   *)
(***************************************************************************)
\* The most values of one header.
MaxHeaderValues == 2

\* Forwarded values: for=1, For=2, by=3, by=3;for="4", for= (a parse error)
\* and for=" (an unterminated quoted value).
ForwardedValues ==
    { <<"f", "o", "r", "=", "1">>,
      <<"F", "o", "r", "=", "2">>,
      <<"b", "y", "=", "3">>,
      <<"b", "y", "=", "3", ";", "f", "o", "r", "=", "\"", "4", "\"">>,
      <<"f", "o", "r", "=">>,
      <<"f", "o", "r", "=", "\"">> }

\* X-Forwarded-For values: "5", " 6 ,7", ",8" and "".
XForwardedForValues ==
    { <<"5">>, <<" ", "6", " ", ",", "7">>, <<",", "8">>, <<>> }

RemoteAddrs == { <<"9">>, <<>> }

Lists(S) == UNION {[1..n -> S] : n \in 0..MaxHeaderValues}

\* http.Header holding the given values (a header without values has no key).
MakeHeader(fwd, xff) ==
    [k \in (IF fwd = <<>> THEN {} ELSE {Forwarded})
            \cup (IF xff = <<>> THEN {} ELSE {XForwardedFor})
        |-> IF k = Forwarded THEN fwd ELSE xff]

\* One call r.ClientAddr().
CallClientAddr ==
    /\ addrOut = Pending
    /\ addrOut' = ClientAddr(req)
    /\ UNCHANGED <<req, wrapVars, pairVars, fmtVars, recVars, now, serveVars>>

InitAddr ==
    /\ \E fwd \in Lists(ForwardedValues), xff \in Lists(XForwardedForValues),
          ra \in RemoteAddrs :
          req = [Header |-> MakeHeader(fwd, xff), RemoteAddr |-> ra]
    /\ addrOut = Pending
    /\ IdleWrap /\ IdlePairs /\ IdleFormat /\ IdleRecord /\ IdleServe

NextAddr == CallClientAddr

SpecAddr == InitAddr /\ [][NextAddr]_vars

\* Whether a Forwarded value parses without error and has a non-empty 'for'.
GoodForwarded(v) ==
    /\ ParsePairs(v, TRUE).kind = "ok"
    /\ MapGet(ParsePairs(v, TRUE).pairs, ForKey) # <<>>

\* The address the claimed priority order gives for r.  The claim is read in
\* the way that asks least of the code: an X-Forwarded-For value whose first
\* hop is empty counts as no hop, and the remote address is the answer.
ClaimedAddr(r) ==
    LET fwd == MapGet(r.Header, Forwarded)
        xff == MapGet(r.Header, XForwardedFor)
        good == {i \in 1..Len(fwd) : GoodForwarded(fwd[i])}
    IN IF good # {} THEN MapGet(ParsePairs(fwd[Min(good)], TRUE).pairs, ForKey)
       ELSE IF Len(xff) # 0 /\ TrimSpace(FirstHop(xff[1])) # <<>>
            THEN TrimSpace(FirstHop(xff[1]))
       ELSE r.RemoteAddr

\* C10: ClientAddr returns the 'for' of the first Forwarded value that parses
\* without error and has a non-empty 'for'; if there is none, the trimmed
\* first hop of the first X-Forwarded-For value; otherwise RemoteAddr.  A
\* Forwarded value that fails to parse is skipped and resolution continues
\* with the next value or strategy.
C10_ClientAddrPriority ==
    addrOut # Pending => addrOut = Ok(ClaimedAddr(req))


(***************************************************************************)
(* Inputs of Record.Format.                                                *)
(***************************************************************************)
\* The most fragments a format string is put together from.
MaxFragments == 4

\* The fragments: they combine into literal text, a trailing '%', "%%",
\* %Z, %T, %{k}Z, %{ms}T, %{k}T, %{k}, %{k and the like.
Fragments ==
    { <<"%">>, <<"%", "{">>, <<"}">>, <<"k">>, <<"Z">>, <<"T">>, <<"m", "s">> }

RECURSIVE Concat(_)
Concat(list) == IF list = <<>> THEN <<>> ELSE list[1] \o Concat(Tail(list))

FragmentFormats ==
    {Concat(list) : list \in UNION {[1..n -> Fragments] : n \in 0..MaxFragments}}

\* Every recognised directive on its own, and the four predefined formats.
DirectiveFormats ==
    { <<"%", c>> : c \in {"%", "B", "D", "H", "T", "U", "a", "m", "q", "r", "s",
                          "t", "u", "v"} }
    \cup { <<"%", "{", "k", "}", c>> : c \in {"C", "i", "o", "t"} }
    \cup { <<"%", "{">> \o unit \o <<"}", "T">> : unit \in {<<"u", "s">>, <<"s">>} }
    \cup { <<"%", "{">> \o EndPrefix \o <<"k", "}", "t">>,
           <<"%", "{">> \o BeginPrefix \o <<"k", "}", "t">> }
    \cup { SimpleLogFormat, BasicLogFormat, CommonLogFormat, NCSALogFormat }

Formats == FragmentFormats \cup DirectiveFormats

Get == <<"G", "E", "T">>
Http11 == <<"H", "T", "T", "P", "/", "1", ".", "1">>

\* A Record in its zero value, as Reset leaves it: no URL, no header maps.
ZeroRecord ==
    [ Request |-> [ Method |-> <<>>, URI |-> <<>>, URL |-> NilURL, Proto |-> <<>>,
                    Header |-> EmptyMap, ContentLength |-> 0, Host |-> <<>>,
                    RemoteAddr |-> <<>>, User |-> <<>> ],
      Response |-> [ Status |-> 0, Size |-> 0, Hijacked |-> FALSE, Header |-> EmptyMap ],
      StartTime |-> ZeroTime, EndTime |-> ZeroTime, Duration |-> <<>> ]

\* GET /x HTTP/1.1 from 9, answered 200 with 34 bytes after 1500 ns; the
\* request carries Cookie: k=v and K: 1, K: 2, the response K: 3.
GetRecord ==
    [ Request |-> [ Method |-> Get, URI |-> <<"/", "x">>,
                    URL |-> URL(<<"/", "x">>, <<>>), Proto |-> Http11,
                    Header |-> [h \in {Cookie, <<"K">>} |->
                                  IF h = Cookie THEN << <<"k", "=", "v">> >>
                                  ELSE << <<"1">>, <<"2">> >>],
                    ContentLength |-> 0, Host |-> <<"h">>,
                    RemoteAddr |-> <<"9">>, User |-> <<>> ],
      Response |-> [ Status |-> 200, Size |-> 34, Hijacked |-> FALSE,
                     Header |-> [h \in {<<"K">>} |-> << <<"3">> >>] ],
      StartTime |-> [year |-> 2006, month |-> 1, day |-> 2, hour |-> 15, minute |-> 4,
                     second |-> 5, offset |-> -25200],
      EndTime |-> [year |-> 2006, month |-> 1, day |-> 2, hour |-> 15, minute |-> 4,
                   second |-> 5, offset |-> -25200],
      Duration |-> Int64(1500) ]

\* POST "/a b?q" by user u, answered 404 after 1.5 s; the Cookie header is
\* k=" (an unterminated quoted value).
BadCookieRecord ==
    [ Request |-> [ Method |-> <<"P", "O", "S", "T">>, URI |-> <<"/", "a", " ", "b", "?", "q">>,
                    URL |-> URL(<<"/", "a", " ", "b">>, <<"q">>), Proto |-> Http11,
                    Header |-> [h \in {Cookie} |-> << <<"k", "=", "\"">> >>],
                    ContentLength |-> 0, Host |-> <<"h">>,
                    RemoteAddr |-> <<"9">>, User |-> <<"u">> ],
      Response |-> [ Status |-> 404, Size |-> 0, Hijacked |-> FALSE, Header |-> EmptyMap ],
      StartTime |-> [year |-> 2026, month |-> 12, day |-> 31, hour |-> 23, minute |-> 59,
                     second |-> 58, offset |-> 3600],
      EndTime |-> [year |-> 2027, month |-> 1, day |-> 1, hour |-> 0, minute |-> 0,
                   second |-> 0, offset |-> 3600],
      Duration |-> Int64(1500000000) ]

Records == {ZeroRecord, GetRecord, BadCookieRecord}

\* One call rec.Format(format).
CallFormat ==
    /\ formatOut = Pending
    /\ formatOut' = Format(rec, format)
    /\ UNCHANGED <<format, rec, wrapVars, pairVars, addrVars, recVars, now, serveVars>>

InitFormat ==
    /\ format \in Formats
    /\ rec \in Records
    /\ formatOut = Pending
    /\ IdleWrap /\ IdlePairs /\ IdleAddr /\ IdleRecord /\ IdleServe

NextFormat == CallFormat

SpecFormat == InitFormat /\ [][NextFormat]_vars

(***************************************************************************)
(* The format grammar, used to state the claims about Format: whether a    *)
(* format string holds only literal bytes and malformed or unrecognised    *)
(* directives.                                                             *)
(***************************************************************************)
SingleLetters == {"B", "D", "H", "T", "U", "a", "m", "q", "r", "s", "t", "u", "v"}
ParamLetters == {"C", "i", "o", "t"}
Units == {<<"m", "s">>, <<"u", "s">>, <<"s">>}

\* Whether %{key}c is a recognised directive.
RecognisedParam(key, c) == c \in ParamLetters \/ (c = "T" /\ key \in Units)

\* Whether t, read from the left, holds no recognised directive and no "%%":
\* only literal bytes, a trailing '%', %c with an unknown c, %{key}c with an
\* unknown c or an unknown unit, an unterminated %{..., or a %{key} that ends
\* the string.
RECURSIVE Unrecognised(_)
Unrecognised(t) ==
    IF t = <<>> THEN TRUE
    ELSE IF t[1] # "%" THEN Unrecognised(Tail(t))
    ELSE IF Len(t) = 1 THEN TRUE
    ELSE IF t[2] # "{" THEN
        t[2] \notin SingleLetters \cup {"%"} /\ Unrecognised(Drop(t, 2))
    ELSE
        LET close == IndexOf(Drop(t, 2), "}") + 2
        IN IF close = 2 THEN TRUE
           ELSE IF close = Len(t) THEN TRUE
           ELSE /\ ~RecognisedParam(SubSeq(t, 3, close - 1), t[close + 1])
                /\ Unrecognised(Drop(t, close + 1))

\* Whether s holds the bytes of part, in a row.
Contains(s, part) ==
    \E k \in 0..(Len(s) - Len(part)) : SubSeq(s, k + 1, k + Len(part)) = part

\* C5: Format is total: whatever the format string and the Record (a
\* zero-valued Record, a Cookie header holding an unterminated quoted value),
\* it returns a string and never aborts.
C5_FormatIsTotal ==
    formatOut # Pending => formatOut.kind = "ok"

\* C6: a format string without a recognised directive and without "%%" is
\* returned byte for byte, for every Record, and Format("%%") is "%".
C6_InvalidDirectivesPassThrough ==
    formatOut # Pending =>
        /\ (Unrecognised(format) => formatOut = Ok(format))
        /\ (format = <<"%", "%">> => formatOut = Ok(<<"%">>))

\* A format string holding a %{key}c directive with an unknown letter c has
\* been formatted on the zero Record and returned unchanged.
C6_Witness ==
    /\ formatOut # Pending
    /\ rec = ZeroRecord
    /\ Unrecognised(format)
    /\ Contains(format, <<"%", "{", "k", "}", "Z">>)
    /\ formatOut = Ok(format)

\* C7: %r renders the method, the request target and the protocol, in this
\* order, so CommonLogFormat on GET /x HTTP/1.1 answered 200 with 34 bytes
\* holds "GET /x HTTP/1.1" followed by the status and the size.
C7_RequestLineOrder ==
    (formatOut # Pending /\ rec = GetRecord) =>
        /\ (format = <<"%", "r">> =>
                formatOut = Ok(Get \o <<" ", "/", "x", " ">> \o Http11))
        /\ (format = CommonLogFormat =>
                /\ formatOut.kind = "ok"
                /\ Contains(formatOut.val,
                            <<"\"">> \o Get \o <<" ", "/", "x", " ">> \o Http11
                                \o <<"\"", " ", "2", "0", "0", " ", "3", "4">>))

(***************************************************************************)
(* One Record over the exchanges it is used for: Start, Request.Update,    *)
(* Response.Update, End and Reset in any order, while the handler changes  *)
(* the live request.                                                       *)
(***************************************************************************)
\* The clock stops once it reads this many seconds.
MaxClock == 1

K == <<"K">>
BasicUP == <<"B", "a", "s", "i", "c", " ", "d", "T", "p", "w">>

\* Two requests as the server hands them to ServeHTTP, each with a header
\* map and a URL of its own: GET /x with credentials u:p, and POST /y?q
\* carrying K: 1.
RequestA ==
    [ Method |-> Get, RequestURI |-> <<"/", "x">>, URL |-> "urlA", Proto |-> Http11,
      Header |-> "headerA", ContentLength |-> 0, Host |-> <<"h">>,
      RemoteAddr |-> <<"9">> ]
RequestB ==
    [ Method |-> <<"P", "O", "S", "T">>, RequestURI |-> <<"/", "y", "?", "q">>,
      URL |-> "urlB", Proto |-> Http11, Header |-> "headerB", ContentLength |-> 3,
      Host |-> <<"g">>, RemoteAddr |-> <<"8">> ]
LiveRequests == {RequestA, RequestB}

\* The heap when the requests arrive; "headerW" is the header map of the
\* response writers.
InitialHeap ==
    [ ref \in {"headerA", "urlA", "headerB", "urlB", "headerW"} |->
        CASE ref = "headerA" -> [h \in {Authorization} |-> <<BasicUP>>]
          [] ref = "urlA" -> URL(<<"/", "x">>, <<>>)
          [] ref = "headerB" -> [h \in {K} |-> << <<"1">> >>]
          [] ref = "urlB" -> URL(<<"/", "y">>, <<"q">>)
          [] ref = "headerW" -> [h \in {K} |-> << <<"3">> >>] ]

\* The wrappers Response.Update is called on: fresh, after WriteHeader(404)
\* and 34 bytes, and hijacked.
Wrappers ==
    { WrapResponseWriter(NewUnder({})),
      [WrapResponseWriter(NewUnder({})) EXCEPT !.status = 404, !.size = 34],
      [WrapResponseWriter(NewUnder({"Hijacker"})) EXCEPT !.hijacked = TRUE] }

\* What the handler does to the live request.
HandlerKeys == {K, Authorization}
HandlerValue == <<"2">>
HandlerPath == <<"/", "z">>

OtherParts == <<wrapVars, pairVars, addrVars, fmtVars, serveVars>>

\* The clock advances.
Tick ==
    /\ now < MaxClock
    /\ now' = now + 1
    /\ UNCHANGED <<recVars, OtherParts>>

\* The server hands the next request to the handler.
Arrive(q) ==
    /\ q # liveReq
    /\ liveReq' = q
    /\ UNCHANGED <<heap, record, seen, done, now, OtherParts>>

\* record.Start()
CallStart ==
    /\ record' = Start(record, TimeAt(now))
    /\ done' = [done EXCEPT !.since = @ \cup {"Start"}]
    /\ UNCHANGED <<heap, liveReq, seen, now, OtherParts>>

\* record.Request.Update(req)
CallRequestUpdate ==
    /\ record' = [record EXCEPT !.Request = RequestUpdate(@, liveReq, heap)]
    /\ seen' = [Header |-> heap[liveReq.Header], URL |-> heap[liveReq.URL]]
    /\ done' = [done EXCEPT !.since = @ \cup {"RequestUpdate"}]
    /\ UNCHANGED <<heap, liveReq, now, OtherParts>>

\* The handler calls req.Header.Set(key, value).
HandlerSetHeader(key) ==
    /\ heap' = [heap EXCEPT ![liveReq.Header] = MapPut(@, key, <<HandlerValue>>)]
    /\ UNCHANGED <<liveReq, record, seen, done, now, OtherParts>>

\* The handler calls req.Header.Del(key).
HandlerDelHeader(key) ==
    /\ key \in DOMAIN heap[liveReq.Header]
    /\ heap' = [heap EXCEPT ![liveReq.Header] =
                    [k \in DOMAIN @ \ {key} |-> @[k]]]
    /\ UNCHANGED <<liveReq, record, seen, done, now, OtherParts>>

\* The handler assigns req.URL.Path.
HandlerSetPath ==
    /\ heap' = [heap EXCEPT ![liveReq.URL].Path = HandlerPath]
    /\ UNCHANGED <<liveReq, record, seen, done, now, OtherParts>>

\* record.Response.Update(w)
CallResponseUpdate(w) ==
    /\ record' = [record EXCEPT !.Response = ResponseUpdate(@, w, "headerW")]
    /\ done' = [done EXCEPT !.since = @ \cup {"ResponseUpdate"}]
    /\ UNCHANGED <<heap, liveReq, seen, now, OtherParts>>

\* record.End(), whether Start has been called or not.
CallEnd ==
    /\ record' = End(record, TimeAt(now))
    /\ done' = [done EXCEPT !.since = @ \cup {"End"}]
    /\ UNCHANGED <<heap, liveReq, seen, now, OtherParts>>

\* record.Request.Reset(), on its own: the Response and the times stay.
CallRequestReset ==
    /\ record' = [record EXCEPT !.Request = RequestReset(@)]
    /\ seen' = Pending
    /\ done' = [done EXCEPT !.since = @ \ {"RequestUpdate"}]
    /\ UNCHANGED <<heap, liveReq, now, OtherParts>>

\* record.Response.Reset(), on its own: the Request and the times stay.
CallResponseReset ==
    /\ record' = [record EXCEPT !.Response = ResponseReset(@)]
    /\ done' = [done EXCEPT !.since = @ \ {"ResponseUpdate"}]
    /\ UNCHANGED <<heap, liveReq, seen, now, OtherParts>>

\* record.Reset()
CallReset ==
    /\ record' = Reset(record)
    /\ seen' = Pending
    /\ done' = [since |-> {},
                reused |-> done.reused \/
                    done.since = {"Start", "RequestUpdate", "ResponseUpdate", "End"}]
    /\ UNCHANGED <<heap, liveReq, now, OtherParts>>

InitRecord ==
    /\ heap = InitialHeap
    /\ liveReq \in LiveRequests
    /\ record = NewRecord
    /\ seen = Pending
    /\ done = [since |-> {}, reused |-> FALSE]
    /\ now = 0
    /\ IdleWrap /\ IdlePairs /\ IdleAddr /\ IdleFormat /\ IdleServe

NextRecord ==
    \/ Tick
    \/ \E q \in LiveRequests : Arrive(q)
    \/ CallStart
    \/ CallRequestUpdate
    \/ \E key \in HandlerKeys : HandlerSetHeader(key)
    \/ \E key \in HandlerKeys : HandlerDelHeader(key)
    \/ HandlerSetPath
    \/ \E w \in Wrappers : CallResponseUpdate(w)
    \/ CallEnd
    \/ CallRequestReset
    \/ CallResponseReset
    \/ CallReset

SpecRecord == InitRecord /\ [][NextRecord]_vars

\* C11: once Request.Update has captured the request, whatever the handler
\* does to the live request afterwards, the Header and the URL the snapshot
\* shows are the ones the request held at capture.
C11_SnapshotIsImmutable ==
    seen # Pending =>
        /\ View(record, heap).Request.Header = seen.Header
        /\ View(record, heap).Request.URL = seen.URL

\* C12: a field of the Record holds a value only if the method that assigns
\* it was called since the last Reset of the Record or of the field's part;
\* right after Reset the Record reads as the zero Record and holds no header
\* map and no URL of the exchange before.
C12_ResetLeavesNoResidue ==
    /\ ("Start" \notin done.since => record.StartTime = ZeroTime)
    /\ ("End" \notin done.since => record.EndTime = ZeroTime /\ record.Duration = <<>>)
    /\ ("RequestUpdate" \notin done.since => record.Request = ZeroRequest)
    /\ ("ResponseUpdate" \notin done.since => record.Response = ZeroResponse)
    /\ (done.since = {} =>
            /\ View(record, heap) = ZeroRecord
            /\ record.Request.Header = NilRef
            /\ record.Request.URL = NilRef
            /\ record.Response.Header = NilRef)

\* A Record that went through a whole exchange and was reset is in use for
\* the next one: the request has been captured, the response not yet.
C12_Witness ==
    /\ done.reused
    /\ done.since = {"Start", "RequestUpdate"}
    /\ record.Request.Header # NilRef
    /\ record.Response = ZeroResponse
    /\ record.EndTime = ZeroTime

(***************************************************************************)
(* LoggingHandler.ServeHTTP: concurrent exchanges sharing recordPool.      *)
(* Each statement of ServeHTTP is one step of the exchange's goroutine.    *)
(* The exchanges are served within one reading of the clock.               *)
(***************************************************************************)
\* The number of concurrent ServeHTTP calls.
MaxExchanges == 2
Exchanges == 1..MaxExchanges

\* The header map and the URL of the request of exchange e, and the header
\* map of its response writer.
HeaderRef(e) == "header" \o ToString(e)
URLRef(e) == "url" \o ToString(e)
WriterHeaderRef(e) == "writerHeader" \o ToString(e)

\* The request of exchange e: GET /x with credentials u:p.
RequestOf(e) ==
    [ Method |-> Get, RequestURI |-> <<"/", "x">>, URL |-> URLRef(e), Proto |-> Http11,
      Header |-> HeaderRef(e), ContentLength |-> 0, Host |-> <<"h">>,
      RemoteAddr |-> <<"9">> ]

ServeHeap ==
    [ ref \in UNION {{HeaderRef(e), URLRef(e), WriterHeaderRef(e)} : e \in Exchanges} |->
        IF \E e \in Exchanges : ref = URLRef(e) THEN URL(<<"/", "x">>, <<>>)
        ELSE IF \E e \in Exchanges : ref = HeaderRef(e)
             THEN [h \in {Authorization} |-> <<BasicUP>>]
        ELSE EmptyMap ]

\* NewLoggingHandler(handler, fn): a nil fn is replaced by DefaultLogFn.
NewLoggingHandler(fn) == IF fn = NilRef THEN "DefaultLogFn" ELSE fn

\* DefaultLogFn(record): the line handed to log.Println.
DefaultLogFn(r, hp) == Format(View(r, hp), BasicLogFormat)

\* The status code the handlers pass to WriteHeader, and the number of bytes
\* of the body they write.
ServeCode == 404
ServeBytes == 34

\* The interfaces the response writer of exchange e implements: every
\* second connection can be hijacked.
ServeCaps(e) == IF e % 2 = 0 THEN {"Hijacker"} ELSE {}

\* An exchange between recordPool.Get and recordPool.Put.
InFlight(e) == exch[e].pc \notin {"get", "done", "panicked"}

Others == <<wrapVars, pairVars, addrVars, fmtVars, heap, liveReq, record, seen, done>>

ServeGet_LeavesInPool(e) ==
    /\ exch[e].pc = "get"
    /\ \/ \E id \in pool :
              /\ exch' = [exch EXCEPT ![e].record = id, ![e].pc = "start"]
              /\ UNCHANGED <<pool, records>>
       \/ /\ records' = Append(records, NewRecord)
          /\ exch' = [exch EXCEPT ![e].record = Len(records) + 1, ![e].pc = "start"]
          /\ UNCHANGED pool
    /\ UNCHANGED <<logFn, now, Others>>

\* record := recordPool.Get().(*Record): a pooled Record is taken out of the
\* pool, or (the pool is empty, or sync.Pool does not find or has dropped
\* its items) New allocates one.
ServeGet(e) ==
    /\ exch[e].pc = "get"
    /\ \/ \E id \in pool :
              /\ pool' = pool \ {id}
              /\ exch' = [exch EXCEPT ![e].record = id, ![e].pc = "start"]
              /\ UNCHANGED records
       \/ /\ records' = Append(records, NewRecord)
          /\ exch' = [exch EXCEPT ![e].record = Len(records) + 1, ![e].pc = "start"]
          /\ UNCHANGED pool
    /\ UNCHANGED <<logFn, now, Others>>

\* record.Start()
ServeStart(e) ==
    /\ exch[e].pc = "start"
    /\ records' = [records EXCEPT ![exch[e].record] = Start(@, TimeAt(now))]
    /\ exch' = [exch EXCEPT ![e].pc = "update"]
    /\ UNCHANGED <<logFn, pool, now, Others>>

\* record.Request.Update(r)
ServeRequestUpdate(e) ==
    /\ exch[e].pc = "update"
    /\ records' = [records EXCEPT ![exch[e].record].Request =
                        RequestUpdate(@, RequestOf(e), heap)]
    /\ exch' = [exch EXCEPT ![e].pc = "wrap"]
    /\ UNCHANGED <<logFn, pool, now, Others>>

\* rw := WrapResponseWriter(w)
ServeWrap(e) ==
    /\ exch[e].pc = "wrap"
    /\ exch' = [exch EXCEPT ![e].rw = WrapResponseWriter(NewUnder(exch[e].caps)),
                            ![e].pc = "handler"]
    /\ UNCHANGED <<logFn, pool, records, now, Others>>

\* The handler calls rw.Write with the body, once, and the writer accepts it.
HandlerWrite(e) ==
    /\ exch[e].pc = "handler"
    /\ exch[e].rw.size = 0
    /\ exch' = [exch EXCEPT ![e].rw.size = @ + ServeBytes]
    /\ UNCHANGED <<logFn, pool, records, now, Others>>

\* The handler calls rw.WriteHeader.
HandlerWriteHeader(e) ==
    /\ exch[e].pc = "handler"
    /\ exch' = [exch EXCEPT ![e].rw.status = ServeCode]
    /\ UNCHANGED <<logFn, pool, records, now, Others>>

\* The handler asserts http.Hijacker on rw and calls Hijack.
HandlerHijack(e) ==
    /\ exch[e].pc = "handler"
    /\ Offers(exch[e].rw, "Hijacker")
    /\ exch' = [exch EXCEPT ![e].rw.hijacked = TRUE]
    /\ UNCHANGED <<logFn, pool, records, now, Others>>

\* l.Handler.ServeHTTP(rw, r) returns.
HandlerReturns(e) ==
    /\ exch[e].pc = "handler"
    /\ exch' = [exch EXCEPT ![e].pc = "response"]
    /\ UNCHANGED <<logFn, pool, records, now, Others>>

\* l.Handler.ServeHTTP(rw, r) panics: ServeHTTP is unwound, nothing after
\* the call runs and the Record is not put back.
HandlerPanics(e) ==
    /\ exch[e].pc = "handler"
    /\ exch' = [exch EXCEPT ![e].pc = "panicked"]
    /\ UNCHANGED <<logFn, pool, records, now, Others>>

\* record.Response.Update(rw)
ServeResponseUpdate(e) ==
    /\ exch[e].pc = "response"
    /\ records' = [records EXCEPT ![exch[e].record].Response =
                        ResponseUpdate(@, exch[e].rw, WriterHeaderRef(e))]
    /\ exch' = [exch EXCEPT ![e].pc = "end"]
    /\ UNCHANGED <<logFn, pool, now, Others>>

\* record.End()
ServeEnd(e) ==
    /\ exch[e].pc = "end"
    /\ records' = [records EXCEPT ![exch[e].record] = End(@, TimeAt(now))]
    /\ exch' = [exch EXCEPT ![e].pc = "log"]
    /\ UNCHANGED <<logFn, pool, now, Others>>

\* if l.LogFn != nil { l.LogFn(record) }: the call is recorded with the
\* Record as LogFn sees it and, for DefaultLogFn, the line it prints.  A
\* LogFn that panics unwinds ServeHTTP.
ServeLog(e) ==
    /\ exch[e].pc = "log"
    /\ IF logFn = NilRef THEN exch' = [exch EXCEPT ![e].pc = "reset"]
       ELSE \E line \in {IF logFn = "DefaultLogFn"
                          THEN DefaultLogFn(records[exch[e].record], heap)
                          ELSE Ok(<<>>)} :
               exch' = [exch EXCEPT
                   ![e].logged = Append(@, [record |-> records[exch[e].record],
                                            line |-> line]),
                   ![e].pc = IF line.kind = "ok" THEN "reset" ELSE "panicked"]
    /\ UNCHANGED <<logFn, pool, records, now, Others>>

\* record.Reset()
ServeReset(e) ==
    /\ exch[e].pc = "reset"
    /\ records' = [records EXCEPT ![exch[e].record] = Reset(@)]
    /\ exch' = [exch EXCEPT ![e].pc = "put"]
    /\ UNCHANGED <<logFn, pool, now, Others>>

\* recordPool.Put(record)
ServePut(e) ==
    /\ exch[e].pc = "put"
    /\ pool' = pool \cup {exch[e].record}
    /\ exch' = [exch EXCEPT ![e].pc = "done"]
    /\ UNCHANGED <<logFn, records, now, Others>>

\* The LogFn a LoggingHandler can hold: the one NewLoggingHandler gives it,
\* or, the struct and its fields being exported, none, as in
\* &LoggingHandler{Handler: h}.
LogFns == {NilRef} \cup {NewLoggingHandler(fn) : fn \in {NilRef, "fn"}}

\* A LoggingHandler, an empty pool, and the server about to call ServeHTTP
\* for each exchange.
InitServe ==
    /\ logFn \in LogFns
    /\ pool = {}
    /\ records = <<>>
    /\ exch = [e \in Exchanges |->
                [ pc |-> "get", record |-> 0, caps |-> ServeCaps(e),
                  rw |-> WrapResponseWriter(NewUnder(ServeCaps(e))), logged |-> <<>> ]]
    /\ heap = ServeHeap
    /\ liveReq = NilRef
    /\ record = NewRecord
    /\ seen = Pending
    /\ done = [since |-> {}, reused |-> FALSE]
    /\ now = 0
    /\ IdleWrap /\ IdlePairs /\ IdleAddr /\ IdleFormat

NextServe ==
    \/ \E e \in Exchanges : ServeGet(e)
    \/ \E e \in Exchanges : ServeStart(e)
    \/ \E e \in Exchanges : ServeRequestUpdate(e)
    \/ \E e \in Exchanges : ServeWrap(e)
    \/ \E e \in Exchanges : HandlerWrite(e)
    \/ \E e \in Exchanges : HandlerWriteHeader(e)
    \/ \E e \in Exchanges : HandlerHijack(e)
    \/ \E e \in Exchanges : HandlerReturns(e)
    \/ \E e \in Exchanges : HandlerPanics(e)
    \/ \E e \in Exchanges : ServeResponseUpdate(e)
    \/ \E e \in Exchanges : ServeEnd(e)
    \/ \E e \in Exchanges : ServeLog(e)
    \/ \E e \in Exchanges : ServeReset(e)
    \/ \E e \in Exchanges : ServePut(e)

SpecServe == InitServe /\ [][NextServe]_vars

\* No Record is held by two exchanges in flight, nor by one while in the
\* pool, and every Record in the pool is in its reset state.
OneRecordPerExchange ==
    /\ \A e1, e2 \in Exchanges :
          (e1 # e2 /\ InFlight(e1) /\ InFlight(e2)) => exch[e1].record # exch[e2].record
    /\ \A e \in Exchanges : InFlight(e) => exch[e].record \notin pool
    /\ \A id \in pool : records[id] = NewRecord

\* LogFn has not been called for exchange e before End, and every call was
\* on a Record that holds the captured request of the exchange, the status,
\* size and hijacked flag of the exchange's own wrapper, and the end time.
LoggedAfterEnd(e) ==
    /\ exch[e].pc \in {"get", "start", "update", "wrap", "handler", "response",
                       "end", "log"} => exch[e].logged = <<>>
    /\ \A k \in 1..Len(exch[e].logged) :
          LET r == exch[e].logged[k].record
          IN /\ r.Response.Status = Status(exch[e].rw)
             /\ r.Response.Size = Size(exch[e].rw)
             /\ r.Response.Hijacked = Hijacked(exch[e].rw)
             /\ r.Response.Header = WriterHeaderRef(e)
             /\ r.Request.Header = HeaderRef(e)
             /\ r.Request.User = <<"u">>
             /\ r.StartTime # ZeroTime
             /\ r.EndTime # ZeroTime
             /\ r.Duration = Sub(r.EndTime, r.StartTime)

\* C13, as stated: one Record per exchange, and for every exchange whose
\* handler returned LogFn has been called exactly once by the time the
\* Record is reset, whatever the LoggingHandler.
C13_LogFnCalledExactlyOnce ==
    /\ OneRecordPerExchange
    /\ \A e \in Exchanges :
          /\ exch[e].pc \in {"reset", "put", "done"} => Len(exch[e].logged) = 1
          /\ LoggedAfterEnd(e)

\* C13, amended: one Record per exchange; by the time the Record is reset
\* LogFn has been called exactly once when the LoggingHandler has a LogFn and
\* not at all when it has none, and in both cases the Record goes on to be
\* reset and put back.
C13_OneRecordPerExchangeLoggedOnce ==
    /\ OneRecordPerExchange
    /\ \A e \in Exchanges :
          /\ exch[e].pc \in {"reset", "put", "done"} =>
                Len(exch[e].logged) = (IF logFn = NilRef THEN 0 ELSE 1)
          /\ LoggedAfterEnd(e)

\* Two exchanges in flight at once on Records of their own: the first has
\* written its body with status 404 and has been logged, the second holds a
\* hijacked connection and has not been logged yet.
C13_Witness ==
    /\ logFn # NilRef
    /\ exch[1].pc = "reset"
    /\ Len(exch[1].logged) = 1
    /\ exch[1].logged[1].record.Response.Status = ServeCode
    /\ exch[1].logged[1].record.Response.Size = ServeBytes
    /\ exch[2].pc = "response"
    /\ Hijacked(exch[2].rw)
    /\ exch[2].logged = <<>>
    /\ exch[1].record # exch[2].record

====
